---- MODULE Spec2Model ----
(***************************************************************************)
(* A model of fluent.go: the Fluent client, its spooler goroutine, its     *)
(* sender goroutine, the reconnect goroutines started by send, and the     *)
(* callers of Post / Close.                                                *)
(*                                                                         *)
(* Bytes are modelled as pairs <<n, k>>: the k-th byte of the envelope of  *)
(* the n-th successfully encoded event.  <<0, 0>> belongs to no            *)
(* envelope (the zero byte of a freshly allocated slice).                  *)
(* Unbuffered channels are modelled as rendezvous: one action moves the    *)
(* sending and the receiving goroutine together.                           *)
(***************************************************************************)
EXTENDS Integers, Sequences, FiniteSets, Bags, TLC

\* ------------------------------------------------------------ bounds
\* number of Post/EncodeAndPostData calls made over a run
MaxCalls == 3
\* number of Close() calls made over a run
MaxClose == 2
\* Config.MaxRetry of the modelled client
MaxRetry == 2
\* number of sends on postCh over a run of the loops alone
MaxSends == 3
\* length in bytes of one encoded envelope
EnvLen == 2
\* Config.RetryWait (the default)
RetryWait == 500

Callers == {"c1", "c2"}
Procs == Callers \cup {"spooler", "sender"}
\* Config.BufferLimit: room for one envelope, or for all that are posted
TightLimit == EnvLen
RoomyLimit == MaxCalls * EnvLen
\* what a caller hands to PostWithTime
Kinds == {"struct", "privstruct", "map", "badkeymap", "other", "nil"}

VARIABLES
  cfg,        \* Config: [sync |-> SyncPost, limit |-> BufferLimit]
  conn,       \* f.conn: 0 is nil, n > 0 is the n-th dialled connection
  nConn,      \* connections dialled so far
  buf,        \* f.buf
  pc,         \* where each goroutine is
  loc,        \* each goroutine's local byte slice (data / buf)
  ret,        \* the last value each caller got back
  cancelled,  \* f.ctx is cancelled (ctx.Done() is closed)
  recon,      \* the goroutines started by reconnect()
  panic,      \* the process has panicked, and why
  nCalls,     \* Post calls made
  nPosted,    \* events encoded so far (event ids 1..nPosted, in call order)
  nClose,     \* Close() calls made
  wire,       \* every byte written to a connection, in order
  lastWrite,  \* the last Write each goroutine issued: its payload, its
              \* connection, whether it returned an error, and the
              \* data that was passed to send
  discarded,  \* bytes of encoded envelopes dropped without being written
  closes,     \* the connections closed by f.close(), in order
  shutdowns,  \* times the spooler took its ctx.Done() branch
  overflows,  \* times the spooler flushed f.buf because it exceeded the limit
  closeAt,    \* encoded Post calls that had returned when Close was first
              \* called (-1 before)
  arg,        \* the data argument of each caller's PostRawData in progress
  nRecv       \* messages the spooler has received from postCh

vars == <<cfg, conn, nConn, buf, pc, loc, ret, cancelled, recon, panic,
          nCalls, nPosted, nClose, wire, lastWrite, discarded, closes, shutdowns,
          overflows, closeAt, arg, nRecv>>

\* ------------------------------------------------------------ pure parts

\* msg.MarshalMsg of the n-th event: an opaque, self-delimiting byte string
EncodeData(n) == [k \in 1..EnvLen |-> <<n, k>>]

\* the bytes of events 1..n, concatenated in call order
RECURSIVE EnvelopesUpTo(_)
EnvelopesUpTo(n) == IF n = 0 THEN <<>> ELSE EnvelopesUpTo(n - 1) \o EncodeData(n)

\* Go's builtin copy(dst, src): overwrites the first min(len) bytes of dst
Copy(dst, src) ==
  [i \in 1..Len(dst) |-> IF i <= Len(src) THEN src[i] ELSE dst[i]]

\* no Write was issued yet
NoWrite ==
  [issued |-> FALSE, payload |-> <<>>, data |-> <<>>, conn |-> 0, err |-> FALSE]

\* var buf []byte: the nil slice
NilSlice == <<>>

\* make([]byte, n): n zero bytes
ZeroSlice(n) == [i \in 1..n |-> <<0, 0>>]

\* a mutant of PostRawDataMsg: buf is allocated with len(data), the copy
\* still reads f.buf
PostRawDataAlloc(data, fbuf) == Copy(ZeroSlice(Len(data)), fbuf)

\* PostRawData: var buf []byte; copy(buf, f.buf); the slice sent on postCh
PostRawDataMsg(data, fbuf) == Copy(NilSlice, fbuf)

\* a mutant of flushBuffer: f.buf = f.buf[0:]
flushBufferKeep(b) == SubSeq(b, 1, Len(b))

\* flushBuffer: f.buf = f.buf[0:0]
flushBuffer(b) == SubSeq(b, 1, 0)

\* a mutant of spoolerAppend: the limit is compared before the append
spoolerAppendCheckFirst(b, data, limit) ==
  IF Len(b) > limit THEN flushBuffer(b) ELSE b \o data

\* spooler, case data := <-f.postCh
spoolerAppend(b, data, limit) ==
  LET nb == b \o data
  IN  IF Len(nb) > limit THEN flushBuffer(nb) ELSE nb

\* spooler, case sendCh := <-sendChCh: var buf []byte; copy(buf, f.buf)
spoolerSnapshot(fbuf) == Copy(NilSlice, fbuf)

\* send: what f.conn.Write is given
sendPayload(data, fbuf) == fbuf

\* e(x, y) = int(math.Pow(x, y)) for x = defaultReconnectWaitIncreRate = 1.5:
\* 1.5^y = 3^y / 2^y truncated toward zero
RECURSIVE Pow(_, _)
Pow(b, n) == IF n = 0 THEN 1 ELSE b * Pow(b, n - 1)
e(y) == IF y >= 0 THEN Pow(3, y) \div Pow(2, y) ELSE Pow(2, -y) \div Pow(3, -y)

\* reconnect: waitTime after the failure of attempt i
waitTime(i) == RetryWait * e(i - 1)

\* a mutant of retriesExhausted: the budget is spent one attempt earlier
retriesExhaustedEarly(i) == i + 1 = MaxRetry

\* reconnect: if i == f.Config.MaxRetry { panic }
retriesExhausted(i) == i = MaxRetry

\* bytes of s that are not in t
Lost(s, t) == Cardinality({i \in 1..Len(s) : \A j \in 1..Len(t) : t[j] # s[i]})

\* ------------------------------------------------------------ initial state

\* New: the Config, then connect(); the spooler is started only if connect
\* succeeded, but the *Fluent is returned either way.
New(syncs, limits, dials) ==
  /\ cfg \in [sync : syncs, limit : limits]
  /\ \E ok \in dials :
       /\ conn = IF ok THEN 1 ELSE 0
       /\ nConn = IF ok THEN 1 ELSE 0
       /\ pc = [p \in Procs |->
                 IF p \in Callers THEN "idle"
                 ELSE IF ~ok THEN "none"
                 ELSE IF p = "spooler" THEN "select" ELSE "offer"]
  /\ buf = <<>>
  /\ loc = [p \in Procs |-> <<>>]
  /\ ret = [c \in Callers |-> "none"]
  /\ cancelled = FALSE
  /\ recon = EmptyBag
  /\ panic = "none"
  /\ nCalls = 0
  /\ nPosted = 0
  /\ nClose = 0
  /\ wire = <<>>
  /\ lastWrite = [p \in Procs |-> NoWrite]
  /\ discarded = 0
  /\ closes = <<>>
  /\ shutdowns = 0
  /\ closeAt = -1
  /\ overflows = 0
  /\ arg = [c \in Callers |-> <<>>]
  /\ nRecv = 0

\* any client, with a buffer limit that the posts of a run do not exceed
Init == New(BOOLEAN, {RoomyLimit}, BOOLEAN)

Running == panic = "none"

\* the Post calls that were encoded and have returned to their caller
Returned == nPosted - Cardinality({c \in Callers : pc[c] # "idle"})

\* ------------------------------------------------------------ callers

\* PostRawData on a buffered postCh: the send completes at once and the call
\* returns before any receive.
PostRawDataBuffered(c, data) ==
  /\ pc' = [pc EXCEPT ![c] = "idle"]
  /\ ret' = [ret EXCEPT ![c] = "nil"]
  /\ discarded' = discarded + Lost(data, PostRawDataMsg(data, buf))
  /\ UNCHANGED <<loc, arg>>

\* PostRawData(data): the slice built from f.buf is what goes to postCh; the
\* caller then blocks in f.postCh <- buf.
PostRawData(c, data) ==
  LET msg == PostRawDataMsg(data, buf)
  IN  /\ pc' = [pc EXCEPT ![c] = "postCh"]
      /\ loc' = [loc EXCEPT ![c] = msg]
      /\ discarded' = discarded + Lost(data, msg)
      /\ arg' = [arg EXCEPT ![c] = data]
      /\ ret' = [ret EXCEPT ![c] = "none"]

\* EncodeAndPostData after a successful EncodeData: send(data) on the calling
\* goroutine if SyncPost, PostRawData(data) otherwise.
PostEncoded(c) ==
  LET data == EncodeData(nPosted + 1)
  IN  /\ nPosted' = nPosted + 1
      /\ IF cfg.sync
           THEN /\ pc' = [pc EXCEPT ![c] = "sendCheck"]
                /\ loc' = [loc EXCEPT ![c] = data]
                /\ ret' = [ret EXCEPT ![c] = "none"]
                /\ UNCHANGED <<discarded, arg>>
           ELSE PostRawData(c, data)

\* a mutant of EncodeAndPostData: dumperr is looked at only after the bytes
\* were passed on
EncodeAndPostDataLate(c, encOK) ==
  IF encOK
    THEN PostEncoded(c)
    ELSE /\ pc' = [pc EXCEPT ![c] = IF cfg.sync THEN "sendCheck" ELSE "postCh"]
         /\ ret' = [ret EXCEPT ![c] = "errEncode"]
         /\ UNCHANGED <<loc, nPosted, discarded, arg>>

\* EncodeAndPostData: an encoding error is returned before anything is done
EncodeAndPostData(c, encOK) ==
  IF encOK
    THEN PostEncoded(c)
    ELSE /\ ret' = [ret EXCEPT ![c] = "errEncode"]
         /\ UNCHANGED <<pc, loc, nPosted, discarded, arg>>

\* Post / PostWithTime: reflect.ValueOf(message).Type() panics on a nil
\* message, and Interface() panics on an unexported struct field; a struct
\* or a string-keyed map goes on to EncodeAndPostData; anything else is an
\* error.
PostWithTime(c) ==
  /\ Running
  /\ pc[c] = "idle"
  /\ nCalls < MaxCalls
  /\ nCalls' = nCalls + 1
  /\ \E kind \in Kinds, encOK \in BOOLEAN :
       IF kind \in {"nil", "privstruct"}
         THEN /\ panic' = "reflect"
              /\ UNCHANGED <<pc, loc, ret, nPosted, discarded, arg>>
       ELSE IF kind \in {"struct", "map"}
         THEN /\ EncodeAndPostData(c, encOK)
              /\ UNCHANGED panic
         ELSE /\ ret' = [ret EXCEPT ![c] = "errShape"]
              /\ UNCHANGED <<pc, loc, nPosted, discarded, panic, arg>>
  /\ UNCHANGED <<cfg, conn, nConn, buf, cancelled, recon, nClose, wire, lastWrite,
                 closes, shutdowns, closeAt, overflows, nRecv>>

\* a mutant of Close: the connection is closed by Close itself
CloseDirect(c) ==
  /\ Running
  /\ pc[c] = "idle"
  /\ nClose < MaxClose
  /\ nClose' = nClose + 1
  /\ cancelled' = TRUE
  /\ closeAt' = IF closeAt = -1 THEN Returned ELSE closeAt
  /\ closes' = IF conn # 0 THEN Append(closes, conn) ELSE closes
  /\ ret' = [ret EXCEPT ![c] = "nil"]
  /\ UNCHANGED <<cfg, conn, nConn, buf, pc, loc, recon, panic, nCalls, nPosted,
                 wire, lastWrite, discarded, shutdowns, overflows, arg, nRecv>>

\* Close: f.cancel(); return nil
Close(c) ==
  /\ Running
  /\ pc[c] = "idle"
  /\ nClose < MaxClose
  /\ nClose' = nClose + 1
  /\ cancelled' = TRUE
  /\ closeAt' = IF closeAt = -1 THEN Returned ELSE closeAt
  /\ ret' = [ret EXCEPT ![c] = "nil"]
  /\ UNCHANGED <<cfg, conn, nConn, buf, pc, loc, recon, panic, nCalls, nPosted,
                 wire, lastWrite, discarded, closes, shutdowns, overflows, arg, nRecv>>

\* ------------------------------------------------------------ spooler

\* spooler, case data := <-f.postCh, meeting a caller blocked in
\* f.postCh <- buf; PostRawData then returns and the Post call returns nil.
SpoolerRecvPost(c) ==
  /\ Running
  /\ pc["spooler"] = "select"
  /\ pc[c] = "postCh"
  /\ buf' = spoolerAppend(buf, loc[c], cfg.limit)
  /\ discarded' = discarded + (Len(buf) + Len(loc[c]) - Len(buf'))
  /\ overflows' = IF Len(buf) + Len(loc[c]) > cfg.limit
                    THEN overflows + 1 ELSE overflows
  /\ pc' = [pc EXCEPT ![c] = "idle"]
  /\ loc' = [loc EXCEPT ![c] = <<>>]
  /\ ret' = [ret EXCEPT ![c] = "nil"]
  /\ arg' = [arg EXCEPT ![c] = <<>>]
  /\ nRecv' = nRecv + 1
  /\ UNCHANGED <<cfg, conn, nConn, cancelled, recon, panic, nCalls, nPosted,
                 nClose, wire, lastWrite, closes, shutdowns, closeAt>>

\* spooler, case sendCh := <-sendChCh, meeting the sender blocked in
\* sendCh <- bufCh: the snapshot is taken and the buffer flushed; the spooler
\* goes on to sendCh <- buf.
SpoolerRecvSendCh ==
  /\ Running
  /\ pc["spooler"] = "select"
  /\ pc["sender"] = "offer"
  /\ LET snap == spoolerSnapshot(buf)
     IN  /\ loc' = [loc EXCEPT !["spooler"] = snap]
         /\ discarded' = discarded + Lost(buf, snap)
  /\ buf' = flushBuffer(buf)
  /\ pc' = [pc EXCEPT !["spooler"] = "sendBuf", !["sender"] = "select"]
  /\ UNCHANGED <<cfg, conn, nConn, ret, cancelled, recon, panic, nCalls,
                 nPosted, nClose, wire, lastWrite, closes, shutdowns, closeAt, overflows, arg, nRecv>>

\* spooler, case <-ctx.Done() leaving the select only (a break in place of
\* the shutdown sequence and return): the spooler is back at its select.
SpoolerCtxDoneBreak ==
  /\ Running
  /\ pc["spooler"] = "select"
  /\ cancelled
  /\ shutdowns = 0
  /\ shutdowns' = shutdowns + 1
  /\ UNCHANGED <<cfg, conn, nConn, buf, pc, loc, ret, cancelled, recon, panic,
                 nCalls, nPosted, nClose, wire, lastWrite, discarded, closes,
                 closeAt, overflows, arg, nRecv>>

\* spooler, case <-ctx.Done() without the receive from senderResult: the
\* spooler goes straight to f.send(f.buf).
SpoolerCtxDoneNoWait ==
  /\ Running
  /\ pc["spooler"] = "select"
  /\ cancelled
  /\ shutdowns' = shutdowns + 1
  /\ pc' = [pc EXCEPT !["spooler"] = "sendCheck"]
  /\ loc' = [loc EXCEPT !["spooler"] = buf]
  /\ UNCHANGED <<cfg, conn, nConn, buf, ret, cancelled, recon, panic, nCalls,
                 nPosted, nClose, wire, lastWrite, discarded, closes, closeAt,
                 overflows, arg, nRecv>>

\* spooler, case <-ctx.Done(): the spooler goes to <-senderResult.  The result
\* channel is unbuffered: the receive completes at once if the sender is
\* already blocked in result <- ctx.Err().
SpoolerCtxDone ==
  /\ Running
  /\ pc["spooler"] = "select"
  /\ cancelled
  /\ shutdowns' = shutdowns + 1
  /\ IF pc["sender"] = "result"
       THEN /\ pc' = [pc EXCEPT !["spooler"] = "sendCheck", !["sender"] = "done"]
            /\ loc' = [loc EXCEPT !["spooler"] = buf]
       ELSE /\ pc' = [pc EXCEPT !["spooler"] = "waitResult"]
            /\ UNCHANGED loc
  /\ UNCHANGED <<cfg, conn, nConn, buf, ret, cancelled, recon, panic, nCalls,
                 nPosted, nClose, wire, lastWrite, discarded, closes, closeAt, overflows, arg, nRecv>>

\* ------------------------------------------------------------ sender

\* sender, case data := <-bufCh, with the spooler not released from its
\* sendCh <- buf (it stays blocked there).
SenderRecvBufHolding ==
  /\ Running
  /\ pc["sender"] = "select"
  /\ pc["spooler"] = "sendBuf"
  /\ loc' = [loc EXCEPT !["sender"] = loc["spooler"]]
  /\ pc' = [pc EXCEPT !["sender"] = "sendCheck"]
  /\ UNCHANGED <<cfg, conn, nConn, buf, ret, cancelled, recon, panic, nCalls,
                 nPosted, nClose, wire, lastWrite, discarded, closes, shutdowns,
                 closeAt, overflows, arg, nRecv>>

\* sender, case data := <-bufCh, meeting the spooler blocked in sendCh <- buf;
\* the sender goes on to f.send(data), the spooler to the top of its loop.
SenderRecvBuf ==
  /\ Running
  /\ pc["sender"] = "select"
  /\ pc["spooler"] = "sendBuf"
  /\ loc' = [loc EXCEPT !["sender"] = loc["spooler"], !["spooler"] = <<>>]
  /\ pc' = [pc EXCEPT !["sender"] = "sendCheck", !["spooler"] = "select"]
  /\ UNCHANGED <<cfg, conn, nConn, buf, ret, cancelled, recon, panic, nCalls,
                 nPosted, nClose, wire, lastWrite, discarded, closes, shutdowns, closeAt, overflows, arg, nRecv>>

\* sender, case <-ctx.Done(): result <- ctx.Err(), which completes at once if
\* the spooler is already blocked in <-senderResult; then return.
SenderCtxDone ==
  /\ Running
  /\ pc["sender"] = "select"
  /\ cancelled
  /\ IF pc["spooler"] = "waitResult"
       THEN /\ pc' = [pc EXCEPT !["spooler"] = "sendCheck", !["sender"] = "done"]
            /\ loc' = [loc EXCEPT !["spooler"] = buf]
       ELSE /\ pc' = [pc EXCEPT !["sender"] = "result"]
            /\ UNCHANGED loc
  /\ UNCHANGED <<cfg, conn, nConn, buf, ret, cancelled, recon, panic, nCalls,
                 nPosted, nClose, wire, lastWrite, discarded, closes, shutdowns, closeAt, overflows, arg, nRecv>>

\* ------------------------------------------------------------ send

\* send, if f.conn == nil { f.reconnect() }: reconnect only starts a
\* goroutine and returns.
SendCheck(x) ==
  /\ Running
  /\ pc[x] = "sendCheck"
  /\ recon' = IF conn = 0
                THEN recon (+) SetToBag({[pc |-> "dial", i |-> 0, wait |-> 0,
                                          fails |-> 0]})
                ELSE recon
  /\ pc' = [pc EXCEPT ![x] = "sendWrite"]
  /\ UNCHANGED <<cfg, conn, nConn, buf, loc, ret, cancelled, panic, nCalls,
                 nPosted, nClose, wire, lastWrite, discarded, closes, shutdowns, closeAt, overflows, arg, nRecv>>

\* send, _, err = f.conn.Write(f.buf): a method call on a nil interface
\* panics; otherwise the write succeeds, or fails after some prefix.  Then
\* the caller of send goes on: EncodeAndPostData returns err; the sender
\* loops; the spooler does flushBuffer, close and returns.
SendWrite(x) ==
  /\ Running
  /\ pc[x] = "sendWrite"
  /\ IF conn = 0
       THEN /\ panic' = "nilConnWrite"
            /\ UNCHANGED <<conn, buf, pc, loc, ret, wire, lastWrite, discarded,
                           closes>>
       ELSE LET payload == sendPayload(loc[x], buf)
            IN  \E ok \in BOOLEAN, n \in 0..Len(payload) :
                  /\ ok => n = Len(payload)
                  /\ wire' = wire \o SubSeq(payload, 1, n)
                  /\ lastWrite' = [lastWrite EXCEPT
                                     ![x] = [issued |-> TRUE, payload |-> payload,
                                             data |-> loc[x], conn |-> conn,
                                             err |-> ~ok]]
                  /\ loc' = [loc EXCEPT ![x] = <<>>]
                  /\ UNCHANGED panic
                  /\ IF x = "spooler"
                       THEN /\ buf' = flushBuffer(buf)
                            /\ discarded' = discarded + (Len(buf) - n)
                            /\ closes' = Append(closes, conn)
                            /\ conn' = 0
                            /\ pc' = [pc EXCEPT ![x] = "stopped"]
                            /\ UNCHANGED ret
                     ELSE IF x = "sender"
                       THEN /\ pc' = [pc EXCEPT ![x] = "offer"]
                            /\ discarded' = discarded + Lost(loc[x], payload)
                            /\ UNCHANGED <<conn, buf, ret, closes>>
                       ELSE /\ pc' = [pc EXCEPT ![x] = "idle"]
                            /\ ret' = [ret EXCEPT
                                         ![x] = IF ok THEN "nil" ELSE "errWrite"]
                            /\ discarded' = discarded + Lost(loc[x], payload)
                            /\ UNCHANGED <<conn, buf, closes>>
  /\ UNCHANGED <<cfg, nConn, cancelled, recon, nCalls, nPosted, nClose,
                 shutdowns, closeAt, overflows, arg, nRecv>>

\* ------------------------------------------------------------ reconnect

\* the bag of goroutines with goroutine r having become goroutine q
Becomes(r, q) == (recon (-) SetToBag({r})) (+) SetToBag({q})

\* One iteration of the reconnect goroutine up to its sleep: connect() sets
\* f.conn to the dialled connection, or to nil with an error; on success the
\* goroutine returns; on an error it panics if i == MaxRetry and otherwise
\* computes waitTime.
ReconnectDial(r) ==
  /\ Running
  /\ r.pc = "dial"
  /\ \E ok \in BOOLEAN :
       IF ok
         THEN /\ conn' = nConn + 1
              /\ nConn' = nConn + 1
              /\ recon' = recon (-) SetToBag({r})
              /\ UNCHANGED panic
         ELSE /\ conn' = 0
              /\ UNCHANGED nConn
              /\ IF retriesExhausted(r.i)
                   THEN /\ panic' = "reconnectFailed"
                        /\ recon' = Becomes(r, [r EXCEPT !.pc = "failed",
                                                         !.fails = r.fails + 1])
                   ELSE /\ recon' = Becomes(r, [r EXCEPT !.pc = "sleep",
                                                         !.fails = r.fails + 1,
                                                         !.wait = waitTime(r.i)])
                        /\ UNCHANGED panic
  /\ UNCHANGED <<cfg, buf, pc, loc, ret, cancelled, nCalls, nPosted, nClose,
                 wire, lastWrite, discarded, closes, shutdowns, closeAt, overflows, arg, nRecv>>

\* time.Sleep(waitTime) is over: i++ and the next iteration
ReconnectWake(r) ==
  /\ Running
  /\ r.pc = "sleep"
  /\ recon' = Becomes(r, [r EXCEPT !.pc = "dial", !.i = r.i + 1])
  /\ UNCHANGED <<cfg, conn, nConn, buf, pc, loc, ret, cancelled, panic, nCalls,
                 nPosted, nClose, wire, lastWrite, discarded, closes, shutdowns,
                 closeAt, overflows, arg, nRecv>>

\* ------------------------------------------------------------ specification

Next ==
  \/ \E c \in Callers : PostWithTime(c)
  \/ \E c \in Callers : Close(c)
  \/ \E c \in Callers : SpoolerRecvPost(c)
  \/ SpoolerRecvSendCh
  \/ SpoolerCtxDone
  \/ SenderRecvBuf
  \/ SenderCtxDone
  \/ \E x \in Procs : SendCheck(x)
  \/ \E x \in Procs : SendWrite(x)
  \/ \E r \in BagToSet(recon) : ReconnectDial(r)
  \/ \E r \in BagToSet(recon) : ReconnectWake(r)

Spec == Init /\ [][Next]_vars

\* The Go scheduler runs every goroutine that can run, and a select chooses
\* at random among its ready cases, so a case that is ready again and again
\* is taken eventually.  Callers are not obliged to call anything.
Fairness ==
  /\ \A c \in Callers : SF_vars(SpoolerRecvPost(c))
  /\ SF_vars(SpoolerRecvSendCh)
  /\ SF_vars(SpoolerCtxDone)
  /\ SF_vars(SenderRecvBuf)
  /\ SF_vars(SenderCtxDone)
  /\ \A x \in Procs : WF_vars(SendCheck(x))
  /\ \A x \in Procs : WF_vars(SendWrite(x))
  /\ WF_vars(\E r \in BagToSet(recon) : ReconnectDial(r))
  /\ WF_vars(\E r \in BagToSet(recon) : ReconnectWake(r))

FairSpec == Spec /\ Fairness

\* ------------------------------------------------------------ before Close()

\* The client for as long as no caller calls Close(): the context is never
\* cancelled, so neither ctx.Done() case is ever ready.
NextNoClose ==
  \/ \E c \in Callers : PostWithTime(c)
  \/ \E c \in Callers : SpoolerRecvPost(c)
  \/ SpoolerRecvSendCh
  \/ SenderRecvBuf
  \/ \E x \in Procs : SendCheck(x)
  \/ \E x \in Procs : SendWrite(x)
  \/ \E r \in BagToSet(recon) : ReconnectDial(r)
  \/ \E r \in BagToSet(recon) : ReconnectWake(r)

NoCloseFairSpec == Init /\ [][NextNoClose]_vars /\ Fairness

\* ------------------------------------------------------------ the loops alone

\* A send on f.postCh of either slice a caller of PostRawData(data) may mean
\* to send: the empty one that PostRawData builds, or data itself.  The
\* spooler and the sender are then checked against messages that carry
\* bytes, not only against the empty ones this client produces.
PostChSend(c) ==
  /\ Running
  /\ pc[c] = "idle"
  /\ nCalls < MaxSends
  /\ nCalls' = nCalls + 1
  /\ nPosted' = nPosted + 1
  /\ \E msg \in {PostRawDataMsg(EncodeData(nPosted + 1), buf),
                   EncodeData(nPosted + 1)} :
       /\ loc' = [loc EXCEPT ![c] = msg]
       /\ discarded' = discarded + Lost(EncodeData(nPosted + 1), msg)
  /\ arg' = [arg EXCEPT ![c] = EncodeData(nPosted + 1)]
  /\ pc' = [pc EXCEPT ![c] = "postCh"]
  /\ ret' = [ret EXCEPT ![c] = "none"]
  /\ UNCHANGED <<cfg, conn, nConn, buf, cancelled, recon, panic, nClose, wire,
                 lastWrite, closes, shutdowns, closeAt, overflows, nRecv>>

\* an asynchronous client whose New succeeded, with a buffer limit that the
\* posts of a run exceed
InitLoops == New({FALSE}, {TightLimit}, {TRUE})

NextLoops ==
  \/ \E c \in Callers : PostChSend(c)
  \/ \E c \in Callers : Close(c)
  \/ \E c \in Callers : SpoolerRecvPost(c)
  \/ SpoolerRecvSendCh
  \/ SpoolerCtxDone
  \/ SenderRecvBuf
  \/ SenderCtxDone
  \/ SendCheck("sender")
  \/ SendWrite("sender")

LoopsSpec == InitLoops /\ [][NextLoops]_vars

\* ------------------------------------------------------------ claims

\* the bytes of the envelopes encoded so far
PostedBytes == {<<n, k>> : n \in 1..nPosted, k \in 1..EnvLen}

\* C1: once Close() was called on a started client, the spooler eventually
\* completes its shutdown sequence and stops (unless the process panicked).
C1_CloseLeadsToStopped ==
  (cancelled /\ pc["spooler"] # "none")
    ~> (pc["spooler"] = "stopped" \/ panic # "none")

\* C2: asynchronous client, live connection, limit not exceeded: after three
\* Post calls that returned and a Close() called right after them, the final
\* flush eventually issues one write carrying the three envelopes in call order.
C2_FinalFlushWritesAllThree ==
  (/\ ~cfg.sync
   /\ cfg.limit >= 3 * EnvLen
   /\ pc["spooler"] # "none"
   /\ nPosted = 3
   /\ closeAt = 3)
    ~> (\/ /\ lastWrite["spooler"].issued
           /\ lastWrite["spooler"].payload = EnvelopesUpTo(3)
        \/ panic # "none")

\* C3: on an asynchronous client, every byte written is a byte of a posted
\* envelope, no such byte is written twice, and the bytes written plus the
\* bytes discarded are at most the bytes of the posted envelopes.
C3_NoFabricatedBytes ==
  ~cfg.sync =>
    /\ \A i \in 1..Len(wire) : wire[i] \in PostedBytes
    /\ \A i, j \in 1..Len(wire) : i # j => wire[i] # wire[j]
    /\ \A p \in Procs : \A i \in 1..Len(lastWrite[p].payload) :
         lastWrite[p].payload[i] \in PostedBytes
    /\ Len(wire) + discarded <= nPosted * EnvLen

C3_Witness ==
  /\ ~cfg.sync
  /\ nPosted = MaxCalls
  /\ \A c \in Callers : pc[c] = "idle"
  /\ cancelled
  /\ discarded > 0
  /\ \E p \in Procs : lastWrite[p].issued

\* C4: whenever the spooler is at the top of its loop, f.buf is no longer than
\* Config.BufferLimit.
C4_BufferWithinLimitAtRest ==
  pc["spooler"] = "select" => Len(buf) <= cfg.limit

\* at rest after an overflow flush, and at rest with a full buffer
C4_Witness ==
  /\ pc["spooler"] = "select"
  /\ overflows > 0
  /\ Len(buf) = cfg.limit

\* C5: Close() returns nil every time it is called, and however often it is
\* called the connection is closed at most once and the spooler takes its
\* shutdown branch at most once.
C5_CloseIdempotent ==
  /\ [](Len(closes) <= 1 /\ shutdowns <= 1)
  /\ [][nClose' = nClose + 1 =>
          /\ cancelled'
          /\ \E c \in Callers : pc[c] = "idle" /\ pc'[c] = "idle" /\ ret'[c] = "nil"]_vars

C5_Witness == nClose = 2 /\ shutdowns = 1

\* C6: every write issued by a synchronous EncodeAndPostData on a live
\* connection carries exactly the encoded bytes of its event.
C6_SyncWritesTheEvent ==
  \A c \in Callers :
    lastWrite[c].issued => lastWrite[c].payload = lastWrite[c].data

\* C7: with SyncPost and every connect attempt refused, a Post does not crash
\* the process (it returns an error).
C7_RefusedPostReturnsError ==
  (cfg.sync /\ nConn = 0) => panic \notin {"nilConnWrite", "reconnectFailed"}

\* C8 as claimed: a reconnect sequence fails for good after exactly MaxRetry
\* failed connect attempts.
C8_FailedAfterMaxRetry ==
  \A r \in BagToSet(recon) : r.pc = "failed" => r.fails = MaxRetry

\* C8 as amended: a reconnect sequence fails for good (panics) after exactly
\* MaxRetry + 1 failed connect attempts, and after that nothing is dialled or
\* written any more.
C8_FailedAfterMaxRetryPlusOne ==
  /\ [](\A r \in BagToSet(recon) :
          r.pc = "failed" => r.fails = MaxRetry + 1 /\ panic = "reconnectFailed")
  /\ [][(\E r \in BagToSet(recon) : r.pc = "failed") =>
          UNCHANGED <<conn, nConn, recon, wire, lastWrite>>]_vars

C8_Witness == \E r \in BagToSet(recon) : r.pc = "failed"

\* C9: attempt i > 0 of a reconnect sequence is preceded by a wait of at least
\* RetryWait * 1.5^(i-1) ms, that is wait * 2^(i-1) >= RetryWait * 3^(i-1).
C9_BackoffAtLeast ==
  \A r \in BagToSet(recon) :
    (r.pc = "dial" /\ r.i > 0) =>
      r.wait * Pow(2, r.i - 1) >= RetryWait * Pow(3, r.i - 1)

\* C10: a Post call that returns an invalid-shape or an encoding error leaves
\* f.buf and f.conn alone, hands nothing to the spooler, writes nothing and
\* starts no reconnect.
C10_FailedPostChangesNothing ==
  [][\A c \in Callers :
       (pc[c] = "idle" /\ nCalls' = nCalls + 1
          /\ ret'[c] \in {"errShape", "errEncode"}) =>
         /\ pc'[c] = "idle" /\ loc'[c] = loc[c]
         /\ UNCHANGED <<buf, conn, nConn, recon, wire, lastWrite>>]_vars

C10_Witness ==
  \E c, d \in Callers :
    /\ pc[c] = "idle" /\ ret[c] = "errShape"
    /\ pc[d] = "idle" /\ ret[d] = "errEncode"

\* the callers blocked in f.postCh <- buf
Pending == {c \in Callers : pc[c] = "postCh"}

\* C11: an asynchronous Post returns only in the step in which the spooler,
\* at its select, receives that caller's message from postCh; every message
\* handed to postCh is either received or still held by its one blocked
\* caller, so nothing is queued or dropped between the two.
C11_PostReturnsAtReceive ==
  /\ [](~cfg.sync => nPosted = nRecv + Cardinality(Pending))
  /\ [][\A c \in Callers :
          (pc[c] = "postCh" /\ pc'[c] # "postCh")
            => /\ pc["spooler"] = "select"
               /\ nRecv' = nRecv + 1
               /\ buf' = spoolerAppend(buf, loc[c], cfg.limit)
               /\ ret'[c] = "nil"]_vars

\* one asynchronous Post has returned while another caller is still blocked
C11_Witness ==
  /\ nRecv >= 1
  /\ \E c \in Callers : pc[c] = "idle" /\ ret[c] = "nil"
  /\ Pending # {}

\* C12: no goroutine's send ever calls Write while f.conn is nil: a send that
\* finds f.conn nil issues its write only once a connection is present.
C12_WriteOnlyOnLiveConn == panic # "nilConnWrite"

\* C13: once a Write on a connection has returned an error, f.conn is no
\* longer that connection (it was dropped for a reconnect), so no later write
\* uses it.
C13_FailedWriteDropsConn ==
  \A p \in Procs :
    (lastWrite[p].issued /\ lastWrite[p].err) => conn # lastWrite[p].conn

\* C14: when the spooler accepts the message of an asynchronous post whose
\* encoded bytes are d while f.buf holds b and Len(b) + Len(d) is within
\* BufferLimit, f.buf afterwards is b followed by d.
C14_AcceptedPostIsAppended ==
  [][\A c \in Callers :
       (/\ pc[c] = "postCh"
        /\ pc'[c] = "idle"
        /\ Len(buf) + Len(arg[c]) <= cfg.limit)
         => buf' = buf \o arg[c]]_vars

ReadsBuf(x) == pc[x] = "sendWrite" /\ conn # 0

\* the spooler is at its select with a case ready whose body assigns f.buf
\* (append or flushBuffer)
SpoolerWritesBuf ==
  /\ pc["spooler"] = "select"
  /\ (Pending # {} \/ pc["sender"] = "offer")

\* C16: f.buf is touched by the spooler only: no other goroutine is about to
\* read f.buf while the spooler is able to append to it or reset it.
C16_BufferOnlyInSpooler ==
  \A x \in Procs \ {"spooler"} : ~(ReadsBuf(x) /\ SpoolerWritesBuf)

\* the connections opened by the client and not closed by it
LiveConns == nConn - Len(closes)

\* the reconnect goroutines that have not ended
ReconnectsInProgress ==
  BagCardinality(recon) -
    Cardinality({r \in BagToSet(recon) : r.pc = "failed"})

\* C17: at most one connection opened by the client is open, and at most one
\* reconnect sequence is in progress.
C17_OneConnOneReconnect == LiveConns <= 1 /\ ReconnectsInProgress <= 1

\* C18: the spooler is in its final send (or past it) only after the sender
\* has handed over its result and returned, and the sender, once it has
\* reported, issues no write: the two never write at the same time.
C18_FinalFlushAfterSender ==
  /\ [](pc["spooler"] \in {"sendCheck", "sendWrite", "stopped"}
          => pc["sender"] = "done")
  /\ [][pc["sender"] \in {"result", "done"}
          => /\ pc'["sender"] \in {"result", "done"}
             /\ lastWrite'["sender"] = lastWrite["sender"]]_vars

\* the spooler has taken the shutdown branch and is held in <-senderResult
\* while the sender is inside f.send
C18_Witness ==
  /\ pc["spooler"] = "waitResult"
  /\ pc["sender"] \in {"sendCheck", "sendWrite"}

\* C19: on a started client, as long as Close() is not called (and the
\* process does not panic), every asynchronous Post blocked on postCh is
\* eventually accepted by the spooler and returns: the spooler/sender
\* handshake always brings the spooler back to its select.
C19_PostEventuallyAccepted ==
  \A c \in Callers :
    (pc[c] = "postCh" /\ pc["spooler"] # "none")
      ~> (pc[c] = "idle" \/ panic # "none")

\* an asynchronous Post has returned after the sender wrote a batch, Close()
\* not called
C19_Witness ==
  /\ ~cancelled
  /\ lastWrite["sender"].issued
  /\ \E c \in Callers : pc[c] = "idle" /\ ret[c] = "nil" /\ nRecv >= 2

\* C20: once the spooler has taken its ctx.Done() branch it receives nothing
\* more from postCh: a caller blocked in f.postCh <- buf stays blocked there
\* in every later step, and so does not return.
C20_NoReceiveAfterShutdown ==
  [][shutdowns >= 1
       => /\ nRecv' = nRecv
          /\ \A c \in Callers : pc[c] = "postCh" => pc'[c] = "postCh"]_vars

\* the spooler has taken the shutdown branch with a caller blocked on postCh
C20_Witness == shutdowns >= 1 /\ Pending # {}

====
